---- MODULE Spec2Model ----
(***************************************************************************)
(* Model of the OpenRouter proxy: the KeyManager (key rotation, cooldown   *)
(* map, promise lock) of src/src/keyManager.ts, the rate-limit extractor   *)
(* of src/src/utils.ts and the request handler of src/src/routes.ts.       *)
(*                                                                         *)
(* Scheduling: Node runs every handler to completion between two awaits.   *)
(* One action of this model is one such synchronous run: from the arrival  *)
(* of a request, a timer or an upstream answer to the next point where the *)
(* handler awaits a timer, the network or a pending promise.  The lock     *)
(* operations inside a run are composed in program order within the action.*)
(*                                                                         *)
(* Time is the value of Date.now() in milliseconds.                        *)
(***************************************************************************)
EXTENDS Integers, Sequences, FiniteSets, TLC

\* ------------------------------------------------------------------ bounds
MaxKeys == 2
MaxReqs == 2
MaxTicks == 2
MaxRetries == 3
MaxLen == 3

\* --------------------------------------------------------------- constants
MsPerSec == 1000
\* config.openrouter.rate_limit_cooldown, the default the configuration sets
rate_limit_cooldown == 60
\* new Date(8640000000000000): an instant after every instant of the model
FarFuture == 2147483647
\* config.openrouter.free_only, as in the example configuration
free_only == TRUE

TickMs == 10 * MsPerSec
StartMs == 100 * MsPerSec
HintAheadMs == 30 * MsPerSec
\* rate-limited answers stop at LastPenalizeMs: finitely many disableKey calls
LastPenalizeMs == StartMs + MaxTicks * TickMs

Reqs == 1..MaxReqs
NoLock == 0
NoKey == 0
\* an absent value (undefined): no reset time, no header
Absent == 0
\* parseInt of a header value that holds no number
NaN == -1
\* a header value that holds no number
Garbage == -2

VARIABLES
  keys,           \* KeyManager.keys: the configured credentials, in pool order
  currentIndex,   \* KeyManager.currentIndex (0-based)
  disabledUntil,  \* KeyManager.disabledUntil: key -> resume instant (ms)
  lockPromise,    \* KeyManager.lockPromise: NoLock, or the request that made it
  now,            \* Date.now()
  pc,             \* per request: where its handler is suspended
  apiKey,         \* per request: the credential getNextKey returned
  wakeAt,         \* per request: instant the setTimeout of getNextKey is due
  waitOn,         \* per request: owner of the lock promise it awaits (0: resolved)
  cont,           \* per request: what resumes after a lock wait
  acq,            \* the getNextKey return of the last step, if any
  reply,          \* the client response finished by the last step, if any
  clobbered,      \* history: a release cleared a lock another request held
  returned,       \* history: the last Len(keys) keys returned, while no
                  \* disableKey call has run
  penalizedEver,  \* history: a disableKey call has run
  lastT,          \* history: key -> the instant its latest disableKey call
                  \* resolved, while that instant is ahead
  penalizedAt,    \* history: key -> when that call ran (forwarder only)
  maxT,           \* history: key -> the latest instant any disableKey call on
                  \* it resolved, while that instant is ahead
  owed,           \* history: pool keys disabled and not yet met by a
                  \* getNextKey call that started at or after the instant
  blocked,        \* history, per request: when its pending getNextKey call
                  \* found every key disabled, and the soonest instant then
  retries,        \* history, per request: sleeps of its pending getNextKey
                  \* call (forwarder only)
  everPending,    \* history: every instant disableKey has stored (forwarder
                  \* only)
  arrival,        \* the request the last step took in, if any: how it was
                  \* classified and verified, and the pool it met (forwarder
                  \* only)
  inHeaders,      \* passthrough: the headers of the inbound request
  forward,        \* passthrough: the key and the headers sent upstream
  stream,         \* passthrough streaming: the bytes the upstream sends
  pending,        \* passthrough streaming: those not yet delivered
  buffer,         \* passthrough streaming: the relay's buffer (a string)
  writes,         \* passthrough streaming: the res.write calls so far
  ended,          \* passthrough streaming: res.end has been called
  closed,         \* passthrough: the client has disconnected
  destroyed,      \* passthrough streaming: response.data.destroy() has run
  exBody,         \* extractor: the response body handed to checkRateLimit
  exResult        \* extractor: what checkRateLimit made of it, if it has run

vars == <<keys, currentIndex, disabledUntil, lockPromise, now, pc, apiKey,
          wakeAt, waitOn, cont, acq, reply, clobbered, returned, penalizedEver,
          lastT, penalizedAt, maxT, owed, blocked, retries, everPending,
          arrival, inHeaders, forward, stream, pending, buffer, writes, ended,
          closed, destroyed, exBody, exResult>>

\* the request handler and the pool
poolVars == <<keys, currentIndex, disabledUntil, lockPromise, now, pc, apiKey,
              wakeAt, waitOn, cont, acq, reply, clobbered, returned,
              penalizedEver, lastT, penalizedAt, maxT, owed, blocked, retries,
              everPending, arrival>>
\* the passthrough of one request
passVars == <<inHeaders, forward, stream, pending, buffer, writes, ended,
              closed, destroyed>>
\* the extractor run on one body
extractVars == <<exBody, exResult>>

\* ------------------------------------------------ variants of the KeyManager
\* Faulty variants of single steps, against which the properties below are
\* shown to discriminate.

\* a cursor that does not advance
NextIndexStuck(idx) == idx
\* a cursor that is not wrapped around
NextIndexUnwrapped(idx) == idx + 1
\* a preventive cooldown set whatever the parameter
SetCooldownAlways(du, key, t, cooldownSeconds) ==
  [k \in (DOMAIN du) \cup {key} |->
     IF k = key THEN t + rate_limit_cooldown * MsPerSec ELSE du[k]]
\* a lock released before the sleep but not after a return (no finally)
LockKeptOnReturn(found, me) == IF found THEN me ELSE NoLock
\* a cooldown taken to be over only after its instant (> for >=)
CooldownOverStrict(t, until) == t > until
\* a cooldown that is never enforced
CooldownOverAlways(t, until) == TRUE
\* a Map.set that stores nothing
MapSetDropped(du, key, v) == du
\* a retry that does not wait for the soonest instant
WaitMsNone(du, t) == 0
\* a lock kept across the sleep (no release before it)
LockKeptAsleep(found, me) == IF found THEN NoLock ELSE me
\* a handler that does not stop at a failed verification
DeniedNever(isPublic, authOk) == FALSE
\* a Map.set that keeps the later of the old and the new instant
MapSetMax(du, key, v) ==
  [k \in (DOMAIN du) \cup {key} |->
     IF k = key THEN (IF key \in DOMAIN du /\ du[key] > v THEN du[key] ELSE v)
     ELSE du[k]]
\* a default cooldown added in milliseconds (no * 1000)
ResolveResetMsCooldown(resetTimeMs, t) ==
  IF resetTimeMs # Absent /\ resetTimeMs # NaN /\ resetTimeMs > t
  THEN resetTimeMs
  ELSE t + rate_limit_cooldown
\* a header filter that lets the inbound authorization header through
prepareForwardHeadersAll(headers) ==
  LET kept == {n \in DOMAIN headers :
                 /\ n \notin {"host", "content-length", "connection"}
                 /\ (headers[n].isArray => Len(headers[n].items) > 0)}
  IN [n \in kept |-> headers[n].items[1]]
\* a disableKey that stores the resolved instant without comparing it to now
ResolveResetUnchecked(resetTimeMs, t) ==
  IF resetTimeMs # Absent /\ resetTimeMs # NaN
  THEN IF resetTimeMs > t THEN resetTimeMs
       ELSE IF resetTimeMs * MsPerSec > t THEN resetTimeMs
       ELSE resetTimeMs * MsPerSec
  ELSE t + rate_limit_cooldown * MsPerSec
\* a disableKey that reads a value above the epoch in seconds as seconds
ResolveResetSeconds(resetTimeMs, t) ==
  IF resetTimeMs # Absent /\ resetTimeMs # NaN
  THEN LET resetDatetime ==
             IF resetTimeMs > t THEN resetTimeMs
             ELSE resetTimeMs * MsPerSec
       IN IF resetDatetime > t THEN resetDatetime
          ELSE t + rate_limit_cooldown * MsPerSec
  ELSE t + rate_limit_cooldown * MsPerSec
\* a disableKey that ignores the reset value
ResolveResetDefault(resetTimeMs, t) == t + rate_limit_cooldown * MsPerSec

\* ------------------------------------------------------- KeyManager: scan

\* keyManager.ts:65  this.currentIndex = (this.currentIndex + 1) % this.keys.length
NextIndex(idx) == (idx + 1) % Len(keys)

\* keyManager.ts:70  new Date() >= disabledUntil
CooldownOver(t, until) == t >= until

\* keyManager.ts:76-81, 87-92: the preventive cooldown set on the selected key
SetCooldown(du, key, t, cooldownSeconds) ==
  IF cooldownSeconds > 0
  THEN [k \in (DOMAIN du) \cup {key} |->
          IF k = key THEN t + cooldownSeconds * MsPerSec ELSE du[k]]
  ELSE du

\* Map.delete
MapDelete(du, key) == [k \in (DOMAIN du) \ {key} |-> du[k]]

\* Map.set
MapSet(du, key, v) == [k \in (DOMAIN du) \cup {key} |-> IF k = key THEN v ELSE du[k]]

\* keyManager.ts:61-96: the for loop, from iteration i with cursor idx and map du
RECURSIVE ScanFrom(_, _, _, _, _)
ScanFrom(i, idx, du, t, cooldownSeconds) ==
  IF i >= Len(keys)
  THEN [found |-> FALSE, key |-> NoKey, idx |-> idx, du |-> du]
  ELSE LET key == keys[idx + 1]
           nidx == NextIndex(idx)
       IN IF key \in DOMAIN du
          THEN IF CooldownOver(t, du[key])
               THEN [found |-> TRUE, key |-> key, idx |-> nidx,
                     du |-> SetCooldown(MapDelete(du, key), key, t, cooldownSeconds)]
               ELSE ScanFrom(i + 1, nidx, du, t, cooldownSeconds)
          ELSE [found |-> TRUE, key |-> key, idx |-> nidx,
                du |-> SetCooldown(du, key, t, cooldownSeconds)]

\* keyManager.ts:99-102: reduce over the map values, starting from the far future
SoonestAvailable(du) ==
  LET vals == {du[k] : k \in DOMAIN du} \cup {FarFuture}
  IN CHOOSE v \in vals : \A w \in vals : v <= w

\* keyManager.ts:104  Math.max(0, soonestAvailable.getTime() - new Date().getTime())
WaitMs(du, t) ==
  LET d == SoonestAvailable(du) - t IN IF d > 0 THEN d ELSE 0

\* keyManager.ts:111-115: the lock after the scan found no key (released before
\* the sleep); keyManager.ts:122-127: and after it returned one (finally)
LockAfterScan(found, me) == NoLock

\* ------------------------------------------------- KeyManager: disableKey

\* keyManager.ts:151-195: the resume instant for a raw reset value.
\* resetTimeMs > Date.now() / 1000 is compared as resetTimeMs * 1000 > Date.now().
ResolveReset(resetTimeMs, t) ==
  IF resetTimeMs # Absent /\ resetTimeMs # NaN
  THEN LET resetDatetime ==
             IF resetTimeMs > t THEN resetTimeMs
             ELSE IF resetTimeMs * MsPerSec > t THEN resetTimeMs
             ELSE resetTimeMs * MsPerSec
       IN IF resetDatetime > t THEN resetDatetime
          ELSE t + rate_limit_cooldown * MsPerSec
  ELSE t + rate_limit_cooldown * MsPerSec

\* keyManager.ts:47-129: one call of getNextKey by request p, run until it
\* returns a key or awaits (the lock promise, or the timer), from lock lp,
\* cursor idx and map du at instant t.
GetNextKey(p, lp, idx, du, t, cooldownSeconds) ==
  IF lp # NoLock
  THEN [outcome |-> "waitLock", lock |-> lp, idx |-> idx, du |-> du,
        key |-> NoKey, wake |-> 0]
  ELSE LET s == ScanFrom(0, idx, du, t, cooldownSeconds)
       IN IF s.found
          THEN [outcome |-> "key", lock |-> LockAfterScan(TRUE, p), idx |-> s.idx,
                du |-> s.du, key |-> s.key, wake |-> 0]
          ELSE [outcome |-> "sleep", lock |-> LockAfterScan(FALSE, p), idx |-> s.idx,
                du |-> s.du, key |-> NoKey, wake |-> t + WaitMs(s.du, t)]

\* ---------------------------------------------------- rate-limit extractor

ErrorShapes == {"none", "objType", "objCode", "objOther", "objNested",
                "strRateLimit", "strOther", "null", "scalar"}

\* A response body: whether it parses as JSON, the shape of its error field
\* (an object with type or code rate_limit_exceeded, another object, an object
\* whose own error field is a string containing "rate limit", a string
\* containing "rate limit", another string, or none), and the raw reset header
\* found in error.headers and in the top-level headers.  Two more shapes have
\* no error field: the JSON value null ("null"), and a number, a string, a
\* boolean or an array ("scalar").
MkBody(json, err, errHdr, topHdr) ==
  [json |-> json, err |-> err, errHdr |-> errHdr, topHdr |-> topHdr]

\* utils.ts:107  parseInt(resetTimeMs, 10)
ParseInt(raw) == IF raw = Garbage THEN NaN ELSE raw

\* utils.ts:71-84: the condition that declares a rate limit
IsRateLimitShape(body) ==
  /\ body.json
  /\ body.err \in {"objType", "objCode", "strRateLimit"}

\* what checkRateLimit returns, or that it threw
Extracted(limited, reset) == [threw |-> FALSE, limited |-> limited, reset |-> reset]
Threw == [threw |-> TRUE, limited |-> FALSE, reset |-> Absent]

\* utils.ts:63-111: the try block.  JSON.parse throws a SyntaxError on a body
\* that is not JSON, and reading the error field of null throws a TypeError.
TryExtract(body) ==
  IF ~body.json THEN Threw
  ELSE IF body.err = "null" THEN Threw
  ELSE IF IsRateLimitShape(body)
  THEN LET fromError == IF body.err \in {"objType", "objCode"} THEN body.errHdr
                        ELSE Absent
           raw == IF fromError = Absent THEN body.topHdr ELSE fromError
       IN IF raw # Absent THEN Extracted(TRUE, ParseInt(raw))
          ELSE Extracted(TRUE, Absent)
  ELSE Extracted(FALSE, Absent)

\* an extractor with no catch
checkRateLimitUncaught(body) == TryExtract(body)

\* utils.ts:61-117: the try block, and [false, undefined] after the catch
checkRateLimit(body) ==
  LET r == TryExtract(body)
  IN IF r.threw THEN Extracted(FALSE, Absent) ELSE r

\* ------------------------------------------------------------- forwarder

Routes == {"handleCompletions", "handleModelsEndpoint", "proxyWithHTTP"}
Paths == {"completions", "models", "other"}
NoResponse == 0
Statuses == {200, 429, 503}

\* routes.ts:152-162: the dispatch on the classified path
Dispatch(path) ==
  IF path = "completions" THEN "handleCompletions"
  ELSE IF path = "models" /\ free_only THEN "handleModelsEndpoint"
  ELSE "proxyWithHTTP"

\* What the client is sent: the upstream bytes as they came ("bytes"), the
\* value of the body's error field re-serialised ("errorField"), an object made
\* of the error message ("message"), the fixed internal-error object ("fixed"),
\* the catalog after removePaidModels ("filtered"), the parsed completion
\* re-serialised or re-framed ("completion"), the verification message ("auth").
Sent(form, body) == [form |-> form, body |-> body]
NoBody == MkBody(FALSE, "none", Absent, Absent)

IsSuccess(status) == status >= 200 /\ status < 300

\* routes.ts:331  JSON.stringify(error.error || error.message), as checkRateLimit
\* parses it: the SDK's APIError.error is the value of the body's error field,
\* so its headers field, if any, is at the top level and it has no error field.
StructuredErrorBody(body) ==
  MkBody(TRUE,
         IF body.json /\ body.err = "objNested" THEN "strRateLimit" ELSE "none",
         Absent,
         IF body.json /\ body.err \in {"objType", "objCode", "objOther", "objNested"}
         THEN body.errHdr ELSE Absent)

\* routes.ts:174-176  JSON.stringify(data) of the Buffer an arraybuffer
\* response holds: {"type":"Buffer","data":[...]}
BufferJson(body) == MkBody(TRUE, "none", Absent, Absent)

Outcome(penalize, reset, status, sent) ==
  [penalize |-> penalize, reset |-> reset, status |-> status, sent |-> sent]

\* routes.ts:327-343: handleCompletions, the upstream having answered
\* (status, body) or not at all (an APIConnectionError is an APIError too)
RelayCompletions(key, status, body) ==
  IF status # NoResponse /\ IsSuccess(status)
  THEN Outcome(FALSE, Absent, 200, Sent("completion", body))
  ELSE LET chk == checkRateLimit(StructuredErrorBody(body))
           st == IF status = NoResponse THEN 500 ELSE status
       IN Outcome(chk.limited, chk.reset, st,
                  IF status # NoResponse /\ body.json /\ body.err # "none"
                  THEN Sent("errorField", body) ELSE Sent("message", body))

\* a model-catalog path that blames the key for a transport failure
RelayModelsBlaming(key, status, body) ==
  IF status = NoResponse
  THEN Outcome(key # NoKey, Absent, 500, Sent("fixed", NoBody))
  ELSE IF IsSuccess(status)
  THEN Outcome(FALSE, Absent, status, Sent("filtered", body))
  ELSE Outcome(FALSE, Absent, status, Sent("bytes", body))

\* routes.ts:349-386 with the catch of routes.ts:163-192: handleModelsEndpoint
RelayModels(key, status, body) ==
  IF status = NoResponse THEN Outcome(FALSE, Absent, 500, Sent("fixed", NoBody))
  ELSE IF IsSuccess(status) THEN Outcome(FALSE, Absent, status, Sent("filtered", body))
  ELSE LET chk == IF key # NoKey /\ status = 429
                  THEN checkRateLimit(BufferJson(body))
                  ELSE [limited |-> FALSE, reset |-> Absent]
       IN Outcome(chk.limited, chk.reset, status, Sent("bytes", body))

\* routes.ts:430-513 with the catch of routes.ts:163-192: proxyWithHTTP.  The
\* streaming branch never calls res.status: the client keeps Express's 200.
RelayHTTP(key, isStream, status, body) ==
  IF status = NoResponse THEN Outcome(FALSE, Absent, 500, Sent("fixed", NoBody))
  ELSE IF isStream THEN Outcome(FALSE, Absent, 200, Sent("bytes", body))
  ELSE LET chk == IF status >= 400 THEN checkRateLimit(body)
                  ELSE [limited |-> FALSE, reset |-> Absent]
       IN Outcome(chk.limited /\ key # NoKey, chk.reset, status, Sent("bytes", body))

\* routes.ts:152-192
Relay(route, key, isStream, status, body) ==
  IF route = "handleCompletions" THEN RelayCompletions(key, status, body)
  ELSE IF route = "handleModelsEndpoint" THEN RelayModels(key, status, body)
  ELSE RelayHTTP(key, isStream, status, body)

\* ------------------------------------------------------------ the system

\* The bodies the upstream may answer with at instant t.  A reset header is
\* HintAheadMs ahead, as epoch milliseconds or as epoch seconds.
ErrorBodies(t) ==
  { MkBody(FALSE, "none", Absent, Absent),
    MkBody(TRUE, "objType", Absent, Absent),
    MkBody(TRUE, "objType", Garbage, Absent),
    MkBody(TRUE, "objCode", t + HintAheadMs, Absent),
    MkBody(TRUE, "strRateLimit", Absent, (t + HintAheadMs) \div MsPerSec),
    MkBody(TRUE, "objOther", Absent, Absent),
    MkBody(TRUE, "objNested", Absent, Absent) }
OkBody == MkBody(TRUE, "none", Absent, Absent)

\* An inbound request's path class and stream flag, and the upstream's answer
\* to it.  The handler reads the path and the flag only when it dispatches, and
\* nothing else reads them, so they are drawn with the answer.
Answer(path, isStream, status, body) ==
  [path |-> path, isStream |-> isStream, status |-> status, body |-> body,
   midStream |-> FALSE]

Answers(t) ==
  { Answer(path, isStream, status, body) :
      path \in Paths, isStream \in BOOLEAN, status \in Statuses \ {200},
      body \in ErrorBodies(t) }
  \cup { Answer(path, isStream, status, OkBody) :
           path \in Paths, isStream \in BOOLEAN, status \in {200, NoResponse} }

\* routes.ts:242-270, 284-309: the upstream accepted a structured streaming
\* request (status 200) and raises the error body while the chunks are iterated.
StreamErrors(t) ==
  { [path |-> "completions", isStream |-> TRUE, status |-> 200, body |-> body,
     midStream |-> TRUE] : body \in ErrorBodies(t) }

AllAnswers(t) == Answers(t) \cup StreamErrors(t)

\* routes.ts:264-270: the catch around the iteration writes a fixed error frame
\* and ends the response; the status line (200) has gone out with the headers.
RelayStreamError(key, body) ==
  Outcome(FALSE, Absent, 200, Sent("streamError", NoBody))

\* the relay of the answer a to a request that holds key
RelayAnswer(key, a) ==
  IF a.midStream
  THEN RelayStreamError(key, a.body)
  ELSE Relay(Dispatch(a.path), key, a.isStream, a.status, a.body)

NoArrival == [req |-> 0, isPublic |-> FALSE, authOk |-> FALSE, cursor |-> 0,
              map |-> << >>]
NoForward == [phase |-> "none", key |-> NoKey, headers |-> << >>]

\* routes.ts:89-97: a non-public request whose verifyAccessKey throws is
\* answered 401
Denied(isPublic, authOk) == ~isPublic /\ ~authOk

\* checkRateLimit has not run
NotExtracted == [threw |-> FALSE, limited |-> FALSE, reset |-> Absent, ran |-> FALSE]

NoCont == [op |-> "none", reset |-> Absent, reply |-> 0]
NoReply == [req |-> 0, route |-> "none", isStream |-> FALSE, key |-> NoKey,
            upStatus |-> NoResponse, upBody |-> NoBody, status |-> NoResponse,
            sent |-> Sent("none", NoBody), disabled |-> FALSE,
            midStream |-> FALSE, reset |-> Absent]

\* ---------------------------------------------------------------- histories
AllKeys == {NoKey} \cup (1..MaxKeys)
Pool == {keys[i] : i \in DOMAIN keys}
NotBlocked == [at |-> 0, until |-> 0]
NoAcq == [req |-> 0, key |-> NoKey, had |-> Absent, cursor |-> 0, due |-> {},
          elig |-> {}, blocked |-> NotBlocked]

Max(a, b) == IF a >= b THEN a ELSE b
Min(a, b) == IF a <= b THEN a ELSE b
LastN(s, n) == IF Len(s) > n THEN SubSeq(s, Len(s) - n + 1, Len(s)) ELSE s

\* the pool keys a getNextKey call may return at this instant
Eligible ==
  {k \in Pool : k \notin DOMAIN disabledUntil \/ disabledUntil[k] <= now}
\* the disabled keys whose instant has come and that no call has met since
Due == {c \in owed : lastT[c] <= now}
\* the earliest instant stored in the map
MinResume ==
  CHOOSE v \in {disabledUntil[k] : k \in DOMAIN disabledUntil} :
    \A k \in DOMAIN disabledUntil : v <= disabledUntil[k]

\* the histories after the getNextKey call of request p ran to the outcome g
RecordGet(p, g, record) ==
  IF g.outcome = "waitLock"
  THEN /\ acq' = NoAcq
       /\ UNCHANGED <<returned, owed, blocked, retries>>
  ELSE /\ owed' = owed \ Due
       /\ IF g.outcome = "key"
          THEN /\ acq' = [req |-> p, key |-> g.key,
                          had |-> IF g.key \in DOMAIN disabledUntil
                                  THEN disabledUntil[g.key] ELSE Absent,
                          cursor |-> currentIndex, due |-> Due,
                          elig |-> Eligible, blocked |-> blocked[p]]
               /\ returned' = IF penalizedEver THEN returned
                              ELSE LastN(Append(returned, g.key), Len(keys))
               /\ blocked' = [blocked EXCEPT ![p] = NotBlocked]
               /\ retries' = [retries EXCEPT ![p] = 0]
          ELSE /\ acq' = NoAcq
               /\ returned' = returned
               /\ blocked' = [blocked EXCEPT ![p] =
                                IF @ = NotBlocked
                                THEN [at |-> now, until |-> MinResume] ELSE @]
               /\ retries' = [retries EXCEPT ![p] =
                                IF record THEN Min(@ + 1, MaxRetries) ELSE @]

\* the histories after disableKey(key, .) stored the instant t
RecordDisable(key, t, record) ==
  /\ penalizedEver' = TRUE
  /\ returned' = << >>
  /\ lastT' = [lastT EXCEPT ![key] = t]
  /\ penalizedAt' = IF record THEN [penalizedAt EXCEPT ![key] = now]
                    ELSE penalizedAt
  /\ maxT' = [maxT EXCEPT ![key] = Max(@, t)]
  /\ owed' = IF key \in Pool THEN owed \cup {key} ELSE owed
  /\ everPending' = IF record THEN everPending \cup {t} ELSE everPending

\* keyManager.ts:30-41: the pool as constructed over n keys, no request in
\* flight
PoolStart(n) ==
  /\ keys = [i \in 1..n |-> i]
  /\ currentIndex = 0
  /\ disabledUntil = << >>
  /\ lockPromise = NoLock
  /\ now = StartMs
  /\ pc = [p \in Reqs |-> "idle"]
  /\ apiKey = [p \in Reqs |-> NoKey]
  /\ wakeAt = [p \in Reqs |-> 0]
  /\ waitOn = [p \in Reqs |-> 0]
  /\ cont = [p \in Reqs |-> NoCont]
  /\ acq = NoAcq
  /\ reply = NoReply
  /\ clobbered = FALSE
  /\ returned = << >>
  /\ penalizedEver = FALSE
  /\ lastT = [c \in AllKeys |-> 0]
  /\ penalizedAt = [c \in AllKeys |-> 0]
  /\ maxT = [c \in AllKeys |-> 0]
  /\ owed = {}
  /\ blocked = [p \in Reqs |-> NotBlocked]
  /\ retries = [p \in Reqs |-> 0]
  /\ everPending = {}
  /\ arrival = NoArrival

\* no passthrough under way
PassIdle ==
  /\ inHeaders = << >>
  /\ forward = NoForward
  /\ stream = << >>
  /\ pending = << >>
  /\ buffer = << >>
  /\ writes = << >>
  /\ ended = FALSE
  /\ closed = FALSE
  /\ destroyed = FALSE

\* no body under extraction
ExtractIdle ==
  /\ exBody = NoBody
  /\ exResult = NotExtracted

Init == (\E n \in 1..MaxKeys : PoolStart(n)) /\ PassIdle /\ ExtractIdle

\* The effect on request p and on the pool of a getNextKey call that ran to
\* the outcome g; lockAfter is the lock the run leaves.
ApplyGet(p, g, lockAfter, record) ==
  /\ currentIndex' = g.idx
  /\ disabledUntil' = g.du
  /\ lockPromise' = lockAfter
  /\ pc' = [pc EXCEPT ![p] = IF g.outcome = "key" THEN "upstream" ELSE g.outcome]
  /\ apiKey' = [apiKey EXCEPT ![p] = g.key]
  /\ wakeAt' = [wakeAt EXCEPT ![p] = g.wake]
  /\ cont' = [cont EXCEPT ![p] =
                IF g.outcome = "waitLock" THEN [NoCont EXCEPT !.op = "get"] ELSE NoCont]
  /\ reply' = NoReply
  /\ RecordGet(p, g, record)
  /\ UNCHANGED <<penalizedEver, lastT, penalizedAt, maxT, everPending>>

\* The response the client of request p is sent for the answer a, relayed as o.
ReplyOf(p, key, a, o) ==
  [req |-> p, route |-> Dispatch(a.path), isStream |-> a.isStream, key |-> key,
   upStatus |-> a.status, upBody |-> a.body, status |-> o.status, sent |-> o.sent,
   disabled |-> o.penalize, midStream |-> a.midStream, reset |-> o.reset]

\* routes.ts:496-513, 333-339, 178-188: the handler from the upstream's answer
\* on: disableKey when the relay asks for it (keyManager.ts:136-208), then the
\* response rep to the client.  rep is recorded when record holds.
Finish(p, key, penalize, reset, rep, record) ==
  IF penalize /\ lockPromise # NoLock
  THEN /\ pc' = [pc EXCEPT ![p] = "waitLock"]
       /\ waitOn' = [waitOn EXCEPT ![p] = lockPromise]
       /\ cont' = [cont EXCEPT ![p] = [op |-> "disable", reset |-> reset, reply |-> rep]]
       /\ reply' = NoReply
       /\ UNCHANGED <<disabledUntil, lockPromise, apiKey, returned, penalizedEver,
                      lastT, penalizedAt, maxT, owed, everPending>>
  ELSE /\ disabledUntil' = IF penalize
                           THEN MapSet(disabledUntil, key, ResolveReset(reset, now))
                           ELSE disabledUntil
       /\ lockPromise' = lockPromise
       /\ pc' = [pc EXCEPT ![p] = "idle"]
       /\ apiKey' = [apiKey EXCEPT ![p] = NoKey]
       /\ waitOn' = [waitOn EXCEPT ![p] = 0]
       /\ cont' = [cont EXCEPT ![p] = NoCont]
       /\ reply' = IF record THEN rep ELSE NoReply
       /\ IF penalize
          THEN RecordDisable(key, ResolveReset(reset, now), record)
          ELSE UNCHANGED <<returned, penalizedEver, lastT, penalizedAt, maxT,
                           owed, everPending>>

\* routes.ts:65-128: a request arrives; it is classified, verified, and
\* getNextKey is called for a non-public one.
Start(p, record) ==
  /\ pc[p] = "idle"
  /\ UNCHANGED <<passVars, extractVars>>
  /\ \E isPublic \in BOOLEAN, authOk \in BOOLEAN :
      /\ arrival' = IF record
                    THEN [req |-> p, isPublic |-> isPublic, authOk |-> authOk,
                          cursor |-> currentIndex, map |-> disabledUntil]
                    ELSE NoArrival
      /\ IF Denied(isPublic, authOk)
       THEN /\ reply' = IF record
                        THEN [NoReply EXCEPT !.req = p, !.status = 401,
                                             !.sent = Sent("auth", NoBody)]
                        ELSE NoReply
            /\ acq' = NoAcq
            /\ UNCHANGED <<keys, currentIndex, disabledUntil, lockPromise, now, pc,
                           apiKey, wakeAt, waitOn, cont, clobbered, returned,
                           penalizedEver, lastT, penalizedAt, maxT, owed,
                           blocked, retries, everPending>>
       ELSE IF isPublic
       THEN /\ pc' = [pc EXCEPT ![p] = "upstream"]
            /\ apiKey' = [apiKey EXCEPT ![p] = NoKey]
            /\ acq' = NoAcq
            /\ reply' = NoReply
            /\ UNCHANGED <<keys, currentIndex, disabledUntil, lockPromise, now,
                           wakeAt, waitOn, cont, clobbered, returned,
                           penalizedEver, lastT, penalizedAt, maxT, owed,
                           blocked, retries, everPending>>
       ELSE LET g == GetNextKey(p, lockPromise, currentIndex, disabledUntil, now, 0)
            IN /\ ApplyGet(p, g, g.lock, record)
               /\ waitOn' = [waitOn EXCEPT ![p] =
                               IF g.outcome = "waitLock" THEN lockPromise ELSE 0]
               /\ UNCHANGED <<keys, now, clobbered>>

\* The continuation of an await inside the KeyManager.
\* keyManager.ts:118-128: the timer is due; getNextKey is called again, and the
\* finally of the frame that slept releases its lock a second time, whatever
\* lockPromise holds by then.
\* keyManager.ts:49-51, 138-140: the awaited lock promise is resolved.
Continue(p, record) ==
  /\ pc[p] \in {"sleep", "waitLock"}
  /\ arrival' = NoArrival
  /\ UNCHANGED <<passVars, extractVars>>
  /\ pc[p] = "sleep" => now >= wakeAt[p]
  /\ pc[p] = "waitLock" => waitOn[p] = 0
  /\ IF pc[p] = "sleep"
     THEN LET g == GetNextKey(p, lockPromise, currentIndex, disabledUntil, now, 0)
          IN /\ ApplyGet(p, g, NoLock, record)
             /\ clobbered' = (clobbered \/ g.lock \notin {NoLock, p})
             /\ waitOn' = [q \in Reqs |->
                             IF q = p
                             THEN (IF g.outcome = "waitLock" /\ g.lock # p
                                   THEN g.lock ELSE 0)
                             ELSE IF waitOn[q] = p THEN 0 ELSE waitOn[q]]
             /\ UNCHANGED <<keys, now>>
     ELSE IF cont[p].op = "get"
     THEN LET g == GetNextKey(p, lockPromise, currentIndex, disabledUntil, now, 0)
          IN /\ ApplyGet(p, g, g.lock, record)
             /\ waitOn' = [waitOn EXCEPT ![p] =
                             IF g.outcome = "waitLock" THEN lockPromise ELSE 0]
             /\ UNCHANGED <<keys, now, clobbered>>
     ELSE /\ Finish(p, apiKey[p], TRUE, cont[p].reset, cont[p].reply, record)
          /\ acq' = NoAcq
          /\ UNCHANGED <<keys, currentIndex, now, wakeAt, clobbered, blocked,
                         retries>>

\* What the pool is left to do for an answer: with the response when it is
\* recorded, without it (answers that treat the pool alike coincide) otherwise.
Effects(p, record) ==
  { LET o == RelayAnswer(apiKey[p], a)
    IN [penalize |-> o.penalize, reset |-> o.reset,
        reply |-> IF record THEN ReplyOf(p, apiKey[p], a, o) ELSE NoReply] :
    a \in AllAnswers(now) }

\* The upstream answers request p, or the transport fails with no response.
UpstreamResponds(p, record) ==
  /\ pc[p] = "upstream"
  /\ arrival' = NoArrival
  /\ UNCHANGED <<passVars, extractVars>>
  /\ \E e \in Effects(p, record) :
       /\ e.penalize => now < LastPenalizeMs
       /\ Finish(p, apiKey[p], e.penalize, e.reset, e.reply, record)
       /\ acq' = NoAcq
       /\ UNCHANGED <<keys, currentIndex, now, wakeAt, clobbered, blocked,
                      retries>>

\* Time passes: up to LastPenalizeMs, and beyond it while a stored instant is
\* still ahead or a timer is not yet due (a due timer may fire late, but not
\* without bound).
TimeMayPass ==
  \/ now < LastPenalizeMs
  \/ \E k \in DOMAIN disabledUntil : disabledUntil[k] > now
  \/ \E p \in Reqs : pc[p] = "sleep" /\ wakeAt[p] > now

Tick ==
  /\ TimeMayPass
  /\ arrival' = NoArrival
  /\ UNCHANGED <<passVars, extractVars>>
  /\ now' = now + TickMs
  /\ acq' = NoAcq
  /\ reply' = NoReply
  /\ lastT' = [c \in AllKeys |-> IF lastT[c] <= now' THEN 0 ELSE lastT[c]]
  /\ penalizedAt' = [c \in AllKeys |->
                       IF lastT[c] <= now' THEN 0 ELSE penalizedAt[c]]
  /\ maxT' = [c \in AllKeys |-> IF maxT[c] <= now' THEN 0 ELSE maxT[c]]
  /\ UNCHANGED <<keys, currentIndex, disabledUntil, lockPromise, pc, apiKey,
                 wakeAt, waitOn, cont, clobbered, returned, penalizedEver, owed,
                 blocked, retries, everPending>>

\* The pool under concurrent requests; client responses are not recorded.
Next ==
  \/ \E p \in Reqs : Start(p, FALSE)
  \/ \E p \in Reqs : Continue(p, FALSE)
  \/ \E p \in Reqs : UpstreamResponds(p, FALSE)
  \/ Tick

Spec == Init /\ [][Next]_vars

\* The forwarder serving one request after another, each response recorded.
NextFwd ==
  \/ Start(1, TRUE)
  \/ Continue(1, TRUE)
  \/ UpstreamResponds(1, TRUE)
  \/ Tick

FwdSpec == Init /\ [][NextFwd]_vars

\* ------------------------------------------------------------ passthrough

\* String.prototype.toLowerCase on a header name
Lower(n) == IF n = "Authorization" THEN "authorization" ELSE n

\* the value of the Authorization header made from a key (`Bearer ${apiKey}`)
Bearer(key) == <<"Bearer", ToString(key)>>

\* the names an inbound header may have
HeaderNames == {"authorization", "Authorization", "host", "x-title"}
\* the values it may have: a string, or an array of strings
HeaderValues ==
  { [isArray |-> FALSE, items |-> <<v>>] : v \in {<<"Bearer", "access">>, <<"Basic", "other">>} }
  \cup { [isArray |-> TRUE, items |-> << >>],
         [isArray |-> TRUE, items |-> << <<"Bearer", "access">>, <<"Basic", "other">> >>] }
\* request.headers
InboundHeaders ==
  UNION { [names -> HeaderValues] : names \in SUBSET HeaderNames }

\* utils.ts:157-179: every header but host, content-length, connection and
\* authorization (compared in lower case), a string as it is, an array by its
\* first item, an empty array not at all
prepareForwardHeaders(headers) ==
  LET kept == {n \in DOMAIN headers :
                 /\ Lower(n) \notin {"host", "content-length", "connection",
                                     "authorization"}
                 /\ (headers[n].isArray => Len(headers[n].items) > 0)}
  IN [n \in kept |-> headers[n].items[1]]

\* routes.ts:402-408 (and 356-360): the headers sent upstream for a request
\* that holds key ('' for a public path: no Authorization header is added)
ForwardHeaders(headers, key) ==
  LET f == prepareForwardHeaders(headers)
  IN IF key # NoKey
     THEN [n \in (DOMAIN f) \cup {"Authorization"} |->
             IF n = "Authorization" THEN Bearer(key) ELSE f[n]]
     ELSE f

\* the bytes of ":hi\n\na:1\n\n"
HiStream == <<":", "h", "i", "\n", "\n", "a", ":", "1", "\n", "\n">>
\* the bytes of short streams: L and T are the lead and the trail byte of a
\* two-byte UTF-8 character
Alphabet == {":", "a", "\n", "L", "T"}
ValidUtf8(s) ==
  \A i \in DOMAIN s :
    /\ s[i] = "L" => (i < Len(s) /\ s[i + 1] = "T")
    /\ s[i] = "T" => (i > 1 /\ s[i - 1] = "L")
Streams ==
  {HiStream} \cup {s \in UNION {[1..n -> Alphabet] : n \in 0..MaxLen} : ValidUtf8(s)}

\* routes.ts:444 chunk.toString(): a chunk decoded as UTF-8 by itself; a lead
\* byte the chunk cuts from its trail byte, and that trail byte, each become
\* the replacement character ("?")
Decode(chunk) ==
  [i \in DOMAIN chunk |->
     IF chunk[i] = "L" /\ (i = Len(chunk) \/ chunk[i + 1] # "T") THEN "?"
     ELSE IF chunk[i] = "T" /\ (i = 1 \/ chunk[i - 1] # "L") THEN "?"
     ELSE chunk[i]]

\* String.prototype.trimStart (the line feed is the white space of the model)
RECURSIVE TrimStart(_)
TrimStart(s) ==
  IF s # << >> /\ s[1] = "\n" THEN TrimStart(Tail(s)) ELSE s

\* routes.ts:448 chunkStr.trimStart().startsWith(':')
IsComment(chunkStr) ==
  LET s == TrimStart(chunkStr) IN s # << >> /\ s[1] = ":"

\* routes.ts:458 buffer.indexOf('\n\n'), 1-based; 0 when there is none
IndexOfBlank(s) ==
  LET at == {i \in 1..(Len(s) - 1) : s[i] = "\n" /\ s[i + 1] = "\n"}
  IN IF at = {} THEN 0 ELSE CHOOSE i \in at : \A j \in at : i <= j

\* routes.ts:457-467: the while loop writing every complete message of the
\* buffer b, after the writes ws
RECURSIVE Drain(_, _)
Drain(b, ws) ==
  LET idx == IndexOfBlank(b)
  IN IF idx = 0 THEN [buffer |-> b, writes |-> ws]
     ELSE Drain(SubSeq(b, idx + 2, Len(b)), Append(ws, SubSeq(b, 1, idx + 1)))

\* routes.ts:443-468: the 'data' handler on a chunk
OnData(b, ws, chunk) ==
  LET chunkStr == Decode(chunk)
      appended == b \o chunkStr
  IN IF IsComment(chunkStr)
     THEN [buffer |-> appended, writes |-> Append(ws, chunkStr)]
     ELSE Drain(appended, ws)

\* routes.ts:471-477: the 'end' handler
OnEnd(b, ws) == IF Len(b) > 0 THEN Append(ws, b) ELSE ws

\* a passthrough request is taken in, the pool aside
PassInit ==
  /\ PoolStart(1)
  /\ ExtractIdle
  /\ inHeaders \in InboundHeaders
  /\ forward = [NoForward EXCEPT !.phase = "request"]
  /\ stream = << >>
  /\ pending = << >>
  /\ buffer = << >>
  /\ writes = << >>
  /\ ended = FALSE
  /\ closed = FALSE
  /\ destroyed = FALSE

\* routes.ts:399-430: the request is sent upstream with a key, or with none
Forward ==
  /\ forward.phase = "request"
  /\ \E key \in Pool \cup {NoKey} :
       forward' = [phase |-> "sent", key |-> key,
                   headers |-> ForwardHeaders(inHeaders, key)]
  /\ UNCHANGED <<inHeaders, stream, pending, buffer, writes, ended, closed,
                 destroyed>>
  /\ UNCHANGED <<poolVars, extractVars>>

\* routes.ts:430-441: the upstream answers with a stream
Respond ==
  /\ forward.phase = "sent"
  /\ forward' = [NoForward EXCEPT !.phase = "streaming"]
  /\ inHeaders' = << >>
  /\ \E s \in Streams : stream' = s /\ pending' = s
  /\ UNCHANGED <<buffer, writes, ended, closed, destroyed>>
  /\ UNCHANGED <<poolVars, extractVars>>

\* routes.ts:443-468: the next chunk, of any length, arrives; a destroyed
\* stream emits no 'data'
Data ==
  /\ forward.phase = "streaming"
  /\ ~ended
  /\ ~destroyed
  /\ \E k \in 1..Len(pending) :
       LET r == OnData(buffer, writes, SubSeq(pending, 1, k))
       IN /\ buffer' = r.buffer
          /\ writes' = r.writes
          /\ pending' = SubSeq(pending, k + 1, Len(pending))
  /\ UNCHANGED <<inHeaders, forward, stream, ended, closed, destroyed>>
  /\ UNCHANGED <<poolVars, extractVars>>

\* routes.ts:471-477: the upstream ends normally; a destroyed stream emits no
\* 'end'
End ==
  /\ forward.phase = "streaming"
  /\ ~ended
  /\ ~destroyed
  /\ pending = << >>
  /\ writes' = OnEnd(buffer, writes)
  /\ ended' = TRUE
  /\ UNCHANGED <<inHeaders, forward, stream, pending, buffer, closed, destroyed>>
  /\ UNCHANGED <<poolVars, extractVars>>

\* routes.ts:484-487: the listeners of the request's 'close' when the client
\* disconnects.  The handler registers its listener once the upstream has
\* answered with a stream (after the await of routes.ts:431); an emitter does
\* not replay an event to a listener added later.
OnClose(phase) == phase = "streaming"

\* The client disconnects: the request emits 'close', and the listener, if
\* there is one, destroys the upstream stream.
Disconnect ==
  /\ forward.phase \in {"sent", "streaming"}
  /\ ~closed
  /\ ~ended
  /\ closed' = TRUE
  /\ destroyed' = OnClose(forward.phase)
  /\ UNCHANGED <<inHeaders, forward, stream, pending, buffer, writes, ended>>
  /\ UNCHANGED <<poolVars, extractVars>>

NextPass == Forward \/ Respond \/ Data \/ End \/ Disconnect

\* The passthrough of one request: its headers, then its streamed answer.
PassSpec == PassInit /\ [][NextPass]_vars

\* -------------------------------------------------- extractor and disableKey

\* The raw reset values a body may carry at the instant t: none, one that
\* holds no number, a negative one, and numbers around the epoch in seconds
\* (t / 1000) and around the epoch in milliseconds (t).
Hints(t) ==
  {Absent, Garbage, -5, 1,
   t \div MsPerSec - 1, t \div MsPerSec, t \div MsPerSec + 1,
   (t + HintAheadMs) \div MsPerSec,
   t - 1, t, t + 1, t + HintAheadMs}

\* the bodies a non-streaming answer may hold
Bodies(t) ==
  { MkBody(json, err, errHdr, topHdr) :
      json \in BOOLEAN, err \in ErrorShapes, errHdr \in Hints(t),
      topHdr \in Hints(t) }

\* routes.ts:488-494: the passthrough has read an answer of status >= 400 to a
\* request that holds the pool's key
HintInit ==
  /\ PoolStart(1)
  /\ PassIdle
  /\ exBody \in Bodies(StartMs)
  /\ exResult = NotExtracted

\* routes.ts:497  const [isRateLimit, resetTimeMs] = checkRateLimit(body)
Extract ==
  /\ ~exResult.ran
  /\ LET r == checkRateLimit(exBody)
     IN exResult' = [threw |-> r.threw, limited |-> r.limited, reset |-> r.reset,
                     ran |-> TRUE]
  /\ UNCHANGED <<poolVars, passVars, exBody>>

\* routes.ts:499-502  if (isRateLimit && apiKey) await
\* keyManager.disableKey(apiKey, resetTimeMs), run as keyManager.ts:136-208
Penalize ==
  /\ exResult.ran
  /\ ~exResult.threw
  /\ exResult.limited
  /\ disabledUntil = << >>
  /\ disabledUntil' = MapSet(disabledUntil, keys[1], ResolveReset(exResult.reset, now))
  /\ UNCHANGED <<keys, currentIndex, lockPromise, now, pc, apiKey, wakeAt,
                 waitOn, cont, acq, reply, clobbered, returned, penalizedEver,
                 lastT, penalizedAt, maxT, owed, blocked, retries, everPending,
                 arrival>>
  /\ UNCHANGED <<passVars, extractVars>>

NextHint == Extract \/ Penalize

\* One answer through the extractor and, when it declares a rate limit,
\* through disableKey.
HintSpec == HintInit /\ [][NextHint]_vars

\* ------------------------------------------------------------- properties

\* position of a pool key in keys (1-based)
PosOf(c) == CHOOSE i \in DOMAIN keys : keys[i] = c
\* how many keys the scan examines before c, starting from the cursor cur
Dist(c, cur) == (PosOf(c) - 1 - cur + Len(keys)) % Len(keys)
\* the key after c in pool order
Succ(c) == keys[(PosOf(c) % Len(keys)) + 1]

\* C1: as long as no disableKey call has run, getNextKey returns the keys in
\* pool order: each return is the pool successor of the one before, and the
\* last N returns (N the pool size) are N different keys, so no key is
\* repeated before all N have been returned.
C1_RoundRobin ==
  ~penalizedEver =>
    /\ \A i \in 1..(Len(returned) - 1) : returned[i + 1] = Succ(returned[i])
    /\ \A i, j \in DOMAIN returned : i # j => returned[i] # returned[j]
    /\ \A i \in DOMAIN returned : returned[i] \in Pool
\* two keys, at least three returns (the window has wrapped around), and two
\* requests holding their keys at once
C1_Witness ==
  /\ ~penalizedEver
  /\ Len(keys) = 2
  /\ returned = <<keys[2], keys[1]>>
  /\ \E p, q \in Reqs : p # q /\ pc[p] = "upstream" /\ pc[q] = "upstream"

\* C2 (as stated): after disableKey(c, .) resolved the instant T, no getNextKey
\* call returns c while now < T, whatever other calls ran in between; maxT[c]
\* is the latest such T still ahead.
C2_NeverBeforeAnyT == acq.req # 0 => maxT[acq.key] <= now
\* C2 (amended): no getNextKey call returns c while now < T, where T is the
\* instant resolved by the most recent disableKey(c, .) call: a later call on c
\* replaces the instant of an earlier one, also by an earlier instant.
C2_NeverBeforeLatestT == acq.req # 0 => lastT[acq.key] <= now
\* c is returned at the very instant its latest disableKey call resolved
C2_Witness ==
  /\ acq.req # 0
  /\ acq.had = now
  /\ acq.key \in acq.due

\* C3 (as stated): the first getNextKey call that starts at or after the
\* instant T resolved by disableKey(c, .) returns c; acq.due holds the keys c
\* for which the returning call is that first call.
C3_FirstCallReturnsC == acq.req # 0 => \A c \in acq.due : acq.key = c
\* C3 (amended): the first getNextKey call that starts at or after T returns c
\* when no key the scan examines before c (in pool order from the cursor) is
\* eligible; in general it returns the first eligible key from the cursor on.
\* With a pool of one key it always returns c.
C3_FirstCallReturnsFirstEligible ==
  acq.req # 0 =>
    /\ acq.key \in acq.elig
    /\ \A k \in acq.elig : Dist(acq.key, acq.cursor) <= Dist(k, acq.cursor)
    /\ \A c \in acq.due :
         (\A k \in acq.elig : Dist(c, acq.cursor) <= Dist(k, acq.cursor))
           => acq.key = c
\* of two keys the one under the cursor is still disabled, and the call, the
\* first at or after T of the other, returns that other
C3_Witness ==
  /\ acq.req # 0
  /\ Len(keys) = 2
  /\ acq.key \in acq.due
  /\ acq.key # keys[acq.cursor + 1]
  /\ acq.had # Absent

\* C4: every value getNextKey returns is a key of the pool (never the empty
\* key), handed to the request that called, and eligible at the instant of
\* return: it had no entry in disabledUntil, or an entry <= now.
C4_ReturnsEligibleMember ==
  acq.req # 0 =>
    /\ acq.key \in Pool
    /\ acq.key # NoKey
    /\ acq.had = Absent \/ acq.had <= now
    /\ pc[acq.req] = "upstream"
    /\ apiKey[acq.req] = acq.key
\* a key whose cooldown is over is returned while another is still disabled
C4_Witness ==
  /\ acq.req # 0
  /\ acq.had # Absent
  /\ \E k \in Pool \ {acq.key} :
       k \in DOMAIN disabledUntil /\ disabledUntil[k] > now

\* C5: a getNextKey call that finds every key disabled sleeps, and does not
\* return before the earliest instant the map held at the time of the call;
\* what it returns is eligible when it returns, by the map as other requests
\* have left it meanwhile.
C5_BlocksUntilSoonest ==
  /\ \A p \in Reqs :
       blocked[p] # NotBlocked =>
         /\ pc[p] = "sleep"
         /\ wakeAt[p] >= blocked[p].until
  /\ (acq.req # 0 /\ acq.blocked # NotBlocked) =>
       /\ now >= acq.blocked.until
       /\ acq.blocked.until >= acq.blocked.at
       /\ acq.had = Absent \/ acq.had <= now
\* the call slept, and returns a key whose entry another request has replaced
\* while it slept
C5_Witness ==
  /\ acq.req # 0
  /\ acq.blocked # NotBlocked
  /\ acq.blocked.until > acq.blocked.at
  /\ acq.had # Absent
  /\ acq.had # acq.blocked.until

\* C6: at most one caller at a time is inside the exclusive section: every
\* section starts and ends within one run, so between runs the lock is free,
\* no caller holds it or waits for it, and no release (the second release of
\* a call that slept included) has cleared a lock another caller held.
C6_ExclusiveSection ==
  /\ lockPromise = NoLock
  /\ ~clobbered
  /\ \A p \in Reqs : pc[p] # "waitLock" /\ waitOn[p] = 0
\* a call that slept and retried returns (its second release has run) while
\* another request sleeps in getNextKey
C6_Witness ==
  /\ acq.req # 0
  /\ acq.blocked # NotBlocked
  /\ \E q \in Reqs \ {acq.req} : pc[q] = "sleep"


\* C7 (the bound on retries): a getNextKey call sleeps and retries at most as
\* often as there are distinct instants disableKey has ever stored.
C7_RetriesBounded == \A p \in Reqs : retries[p] <= Cardinality(everPending)

\* a 429 body that is rate-limit-shaped and carries, in the header map the
\* extractor reads, the instant HintAheadMs ahead in epoch milliseconds
HintMs(t) == MkBody(TRUE, "objCode", t + HintAheadMs, Absent)
\* the same instant in epoch seconds
HintSec(t) == MkBody(TRUE, "strRateLimit", Absent, (t + HintAheadMs) \div MsPerSec)
\* the response just finished relayed, on the buffered passthrough, the
\* upstream's 429 with the body b to a request that held the only key
Relayed429(b) ==
  /\ reply.req # 0
  /\ Len(keys) = 1
  /\ reply.route = "proxyWithHTTP"
  /\ ~reply.isStream
  /\ reply.key = keys[1]
  /\ reply.upStatus = 429
  /\ reply.upBody = b

C9_DisabledOnEveryPath ==
  ( /\ reply.req # 0
    /\ reply.key # NoKey
    /\ reply.upStatus # NoResponse
    /\ ~IsSuccess(reply.upStatus)
    /\ IsRateLimitShape(reply.upBody) )
  => /\ reply.disabled
     /\ reply.key \in DOMAIN disabledUntil
     /\ disabledUntil[reply.key] > now

\* C10: every non-2xx upstream response is relayed with the upstream's status
\* and its body unchanged, on every dispatch path, buffered or streamed.
C10_RelayedUnchanged ==
  ( /\ reply.req # 0
    /\ reply.upStatus # NoResponse
    /\ ~IsSuccess(reply.upStatus) )
  => /\ reply.status = reply.upStatus
     /\ reply.sent = Sent("bytes", reply.upBody)

\* C11: in structured streaming, when the upstream raises a rate-limit-shaped
\* error while the chunks are iterated, disableKey has run on the request's key
\* by the time the response is ended.
C11_MidStreamDisables ==
  ( /\ reply.req # 0
    /\ reply.midStream
    /\ reply.key # NoKey
    /\ \/ IsRateLimitShape(reply.upBody)
       \/ checkRateLimit(StructuredErrorBody(reply.upBody)).limited )
  => /\ reply.disabled
     /\ reply.key \in DOMAIN disabledUntil
     /\ disabledUntil[reply.key] > now

\* C14: a request to a non-public path whose verification fails is answered
\* 401 in the step that takes it in, and that step calls neither getNextKey
\* nor disableKey: no key is returned or held, the request is over, and
\* currentIndex and disabledUntil are what they were.
C14_DeniedTouchesNothing ==
  (arrival.req # 0 /\ ~arrival.isPublic /\ ~arrival.authOk) =>
    /\ reply.req = arrival.req
    /\ reply.status = 401
    /\ ~reply.disabled
    /\ acq = NoAcq
    /\ pc[arrival.req] = "idle"
    /\ apiKey[arrival.req] = NoKey
    /\ currentIndex = arrival.cursor
    /\ disabledUntil = arrival.map
\* the request is denied while the cursor is off its start and a key disabled
C14_Witness ==
  /\ arrival.req # 0
  /\ ~arrival.isPublic
  /\ ~arrival.authOk
  /\ reply.status = 401
  /\ currentIndex # 0
  /\ DOMAIN disabledUntil # {}

\* C15: a request to a public path never touches the pool: the step that takes
\* it in calls no getNextKey and leaves currentIndex and disabledUntil alone,
\* and whatever the upstream answers it, no disableKey is called.
C15_PublicTouchesNothing ==
  /\ (arrival.req # 0 /\ arrival.isPublic) =>
       /\ acq = NoAcq
       /\ apiKey[arrival.req] = NoKey
       /\ currentIndex = arrival.cursor
       /\ disabledUntil = arrival.map
  /\ (reply.req # 0 /\ reply.route # "none" /\ reply.key = NoKey) =>
       ~reply.disabled

\* C16: each key is used at most once per cooldown period: when two
\* successive steps each hand out the same key, at least the configured
\* cooldown lies between them.
C16_OncePerCooldown ==
  [][ (acq.req # 0 /\ acq'.req # 0 /\ acq'.key = acq.key)
        => now' >= now + rate_limit_cooldown * MsPerSec ]_vars

\* C17: disableKey(c) called with no reset value stores now + the default
\* cooldown for c, now being the instant of the call.
C17_AbsentHintDefault ==
  (reply.req # 0 /\ reply.disabled /\ reply.reset = Absent) =>
    /\ reply.key \in DOMAIN disabledUntil
    /\ disabledUntil[reply.key] = now + rate_limit_cooldown * MsPerSec
\* a pool key is disabled with no reset value, later than the start
C17_Witness ==
  /\ reply.req # 0
  /\ reply.disabled
  /\ reply.reset = Absent
  /\ reply.key \in Pool
  /\ now > StartMs

\* C18: disableKey(c, h) overwrites the entry of c: while the instant the
\* latest disableKey call on c resolved is ahead, it is the entry of c, also
\* when an earlier call had resolved a later instant.
C18_LaterCallWins ==
  \A c \in AllKeys :
    lastT[c] > now => (c \in DOMAIN disabledUntil /\ disabledUntil[c] = lastT[c])
\* the entry of c is the instant of the latest call, earlier than the instant
\* a call before it had stored
C18_Witness ==
  \E c \in Pool :
    /\ lastT[c] > now
    /\ maxT[c] > lastT[c]
    /\ c \in DOMAIN disabledUntil
    /\ disabledUntil[c] = lastT[c]

\* C19: a transport error that carries no response is reported to the client
\* as status 500 in the step that meets it; that step ends the request (the
\* handler sends no second request) and calls no disableKey: currentIndex and
\* disabledUntil are left as they were.
C19_NoResponseIs500 ==
  [][ (reply'.req # 0 /\ reply'.route # "none" /\ reply'.upStatus = NoResponse)
        => /\ reply'.status = 500
           /\ ~reply'.disabled
           /\ pc'[reply'.req] = "idle"
           /\ disabledUntil' = disabledUntil
           /\ currentIndex' = currentIndex ]_vars
\* a request that holds a key meets a transport failure on the model-catalog
\* path while a key is disabled
C19_Witness ==
  /\ reply.req # 0
  /\ reply.route = "handleModelsEndpoint"
  /\ reply.upStatus = NoResponse
  /\ reply.status = 500
  /\ reply.key \in Pool
  /\ DOMAIN disabledUntil # {}

\* the concatenation of the writes
RECURSIVE Flatten(_)
Flatten(ws) == IF ws = << >> THEN << >> ELSE Head(ws) \o Flatten(Tail(ws))

\* C12: fed the bytes ":hi\n\na:1\n\n", in any chunking, the relay has
\* written exactly two frames when the response ends: ":hi\n\n", then
\* "a:1\n\n".
C12_TwoFrames ==
  (ended /\ stream = HiStream) =>
    writes = << SubSeq(HiStream, 1, 5), SubSeq(HiStream, 6, 10) >>

\* C13: when the upstream has ended normally, every upstream byte has been
\* written to the client once and in order: the concatenation of the writes is
\* the concatenation of the chunks.
C13_EveryByteOnce == ended => Flatten(writes) = stream

\* C20: the headers sent upstream on the passthrough hold no inbound
\* authorization header: the only header named authorization, in any case, is
\* Authorization, it is there only when the request holds a key, and its
\* value is Bearer followed by that key.
C20_OnlyTheKeyIsSent ==
  forward.phase = "sent" =>
    \A n \in DOMAIN forward.headers :
      Lower(n) = "authorization" =>
        /\ n = "Authorization"
        /\ forward.key # NoKey
        /\ forward.headers[n] = Bearer(forward.key)
\* the client sent its access key as authorization, and another header; the
\* request holds a key, and the other header is forwarded
C20_Witness ==
  /\ forward.phase = "sent"
  /\ {"authorization", "x-title"} \subseteq DOMAIN inHeaders
  /\ ~inHeaders["authorization"].isArray
  /\ forward.key \in Pool
  /\ "x-title" \in DOMAIN forward.headers
  /\ forward.headers["Authorization"] = Bearer(forward.key)

\* the body has no error field, or is not JSON at all
NoErrorField(body) == ~body.json \/ body.err \in {"none", "null", "scalar"}

\* C21: checkRateLimit does not throw, and it returns limited = false for a
\* body that is not JSON and for a JSON value with no error field; no
\* disableKey call follows such a body.
C21_NoSignalNoPenalty ==
  /\ ~exResult.threw
  /\ (exResult.ran /\ NoErrorField(exBody)) =>
       (~exResult.limited /\ exResult.reset = Absent /\ disabledUntil = << >>)
\* checkRateLimit has run on a JSON null, whose error field cannot be read
C21_Witness ==
  /\ exResult.ran
  /\ exBody.json
  /\ exBody.err = "null"
  /\ exBody.topHdr = now + HintAheadMs

\* disableKey has run on the extracted reset value
Penalized == exResult.ran /\ disabledUntil # << >>
\* the reset value is present: a number other than 0
PresentHint == exResult.reset \notin {Absent, NaN}
\* the instant disableKey stored
ResumeAt == disabledUntil[keys[1]]
DefaultResume == now + rate_limit_cooldown * MsPerSec

\* C24: a present hint h above the epoch in milliseconds, or above the epoch
\* in seconds, is taken as milliseconds, a smaller one is multiplied by 1000;
\* an instant so resolved that is not after now is replaced by now plus the
\* default cooldown.  Every instant disableKey stores is after now.
C24_ThreeWayAndAhead ==
  Penalized =>
    /\ ResumeAt > now
    /\ PresentHint =>
         LET h == exResult.reset
             resolved == IF h > now THEN h
                         ELSE IF h > now \div MsPerSec THEN h
                         ELSE h * MsPerSec
         IN ResumeAt = IF resolved > now THEN resolved ELSE DefaultResume
\* the hint lies between the epoch in seconds and the epoch in milliseconds:
\* it is taken as milliseconds, is not after now, and the default is stored
C24_Witness ==
  /\ Penalized
  /\ exResult.reset = now - 1
  /\ ResumeAt = DefaultResume

\* C29: a present hint is the stored instant if and only if it is above the
\* epoch in milliseconds; for any other present hint, an instant ahead given
\* in epoch seconds included, the stored instant is now plus the default
\* cooldown.
C29_SecondsNeverUsed ==
  (Penalized /\ PresentHint) =>
    /\ exResult.reset > now => ResumeAt = exResult.reset
    /\ exResult.reset <= now => ResumeAt = DefaultResume
\* the hint is an instant ahead in epoch seconds, and the default is stored
C29_Witness ==
  /\ Penalized
  /\ exResult.reset = (now + HintAheadMs) \div MsPerSec
  /\ ResumeAt = DefaultResume

\* C23: while the upstream streams, once the client has disconnected the
\* upstream read is aborted and nothing more is written to the client: no
\* chunk, no final flush, no end.
C23_NothingAfterDisconnect ==
  [][(closed /\ forward.phase = "streaming") =>
       (destroyed' /\ writes' = writes /\ ended' = ended)]_vars

\* key k of the pool may be returned at the instant t, the map being du
EligibleAt(du, t, k) == k \notin DOMAIN du \/ du[k] <= t
\* this step is the end of a disableKey call on key k
DisableStep(k) ==
  \E p \in Reqs : pc[p] \in {"upstream", "waitLock"} /\ pc'[p] = "idle"
                   /\ apiKey[p] = k /\ disabledUntil' # disabledUntil

\* C25: a key of the pool becomes ineligible only by a disableKey call on it
\* (the forwarder calls getNextKey with no preventive cooldown), and eligible
\* again only by time reaching its instant.  A getNextKey call adds no entry
\* and extends none: when it returns a key it has deleted that key's entry,
\* which was over, and left every other entry as it was; when it returns none
\* it has left the map as it was.
C25_OnlyPenaltyDisables ==
  [][ /\ \A k \in Pool :
           /\ (EligibleAt(disabledUntil, now, k) /\ ~EligibleAt(disabledUntil', now', k))
                => DisableStep(k)
           /\ (~EligibleAt(disabledUntil, now, k) /\ EligibleAt(disabledUntil', now', k))
                => (now' > now /\ disabledUntil' = disabledUntil
                    /\ disabledUntil[k] <= now')
      /\ acq'.req # 0 =>
           /\ disabledUntil' = MapDelete(disabledUntil, acq'.key)
           /\ EligibleAt(disabledUntil, now, acq'.key)
      /\ (\E p \in Reqs : pc[p] # "sleep" /\ pc'[p] = "sleep") =>
           disabledUntil' = disabledUntil
    ]_vars
\* getNextKey has returned a key whose entry was over and has deleted it,
\* while the entry of another key, still ahead, stays
C25_Witness ==
  /\ acq.req # 0
  /\ acq.had # Absent
  /\ acq.key \notin DOMAIN disabledUntil
  /\ \E k \in Pool \ {acq.key} :
       k \in DOMAIN disabledUntil /\ disabledUntil[k] > now

\* C26: the cursor stays within 0..N-1.  A getNextKey call that returns the
\* k-th key it examines leaves the cursor at (start + k) mod N; a step that
\* returns no key (a full rotation that finds every key disabled, a disableKey
\* call, anything else) leaves the cursor where it was.
C26_CursorAdvance ==
  [][ /\ currentIndex' \in 0..(Len(keys) - 1)
      /\ acq'.req # 0 =>
           currentIndex' =
             (currentIndex + Dist(acq'.key, currentIndex) + 1) % Len(keys)
      /\ acq'.req = 0 => currentIndex' = currentIndex
    ]_vars
\* of two keys the one under the cursor was disabled: the call returned the
\* second key it examined, and the cursor is back where it started
C26_Witness ==
  /\ acq.req # 0
  /\ Len(keys) = 2
  /\ acq.key # keys[acq.cursor + 1]
  /\ currentIndex = acq.cursor

\* C27: the lock is released on every way out of getNextKey and disableKey:
\* it is free when a key has just been returned, while a caller sleeps, and
\* when a request has finished; no caller is kept waiting for it.
C27_ReleasedOnEveryExit ==
  /\ acq.req # 0 => lockPromise = NoLock
  /\ \A p \in Reqs :
       /\ pc[p] = "sleep" => lockPromise = NoLock
       /\ pc[p] \in {"idle", "upstream"} => lockPromise # p
       /\ pc[p] # "waitLock"
\* while one request sleeps in getNextKey, the getNextKey call of the other
\* has entered the section and returned a key
C27_Witness ==
  /\ acq.req # 0
  /\ \E p \in Reqs \ {acq.req} : pc[p] = "sleep" /\ wakeAt[p] > now

\* C28: every key of disabledUntil is a key of the pool: disableKey is only
\* called with the key getNextKey returned for the request, never with the
\* empty key of a public path.
C28_OnlyPoolKeysDisabled == \A k \in DOMAIN disabledUntil : k \in Pool

====
